---- MODULE Spec2Model ----
(***************************************************************************)
(* The scalar reverse-mode autodiff engine of src/neuron/src/val.rs (Val)  *)
(* and its older duplicate src/neuron/src/nn.rs (Neuron).                  *)
(*                                                                         *)
(* A node is an Rc<RefCell<ValInternal>>; the model keeps the nodes in an  *)
(* arena `nodes` and uses the arena index as the Rc pointer.  f64 values   *)
(* are modelled by integers (all builder results are kept in a range where *)
(* f64 arithmetic on integers is exact).                                   *)
(***************************************************************************)
EXTENDS Integers, Sequences, FiniteSets, TLC

VARIABLES
    variant,   \* "val" (val.rs) or "nn" (nn.rs): which engine is running
    cfg,       \* the run's bounds: [nodes, passes]
    nodes,     \* the arena: Seq of ValInternal records
    pc,        \* "idle" | "running" | "panicked"
    stack,     \* call stack of back_prop_internal: Seq of [node, next]
    visited,   \* the HashSet<Val> of back_prop_gradient: Seq of [node, hash]
    terminal,  \* the node back_prop_gradient was last called on (0: never)
    log,       \* history: nodes whose rule was invoked in this pass, in order
    pre,       \* history: the arena when the current/last pass started
    hist       \* history: one record [t, pre, post, log] per returned pass

vars == <<variant, cfg, nodes, pc, stack, visited, terminal, log, pre, hist>>

---------------------------------------------------------------------------
\* Bounds of the model.
MaxNodes == 3    \* nodes of a graph under Spec, SpecFair and SpecRepeat
DagNodes == 4    \* nodes of a graph under SpecDag
MaxPasses == 2   \* back_prop_gradient calls under SpecRepeat
MaxAbs == 16     \* largest |data| an operator may produce
MaxExp == 2      \* largest exponent Val::pow is applied with

\* f64 inputs and labels the builders draw from.
Values == {-1, 0, 2}
Labels == {"a", "b"}
NoLabel == "None"
NoOp == "None"

Abs(x) == IF x < 0 THEN -x ELSE x
InRange(x) == Abs(x) <= MaxAbs

RECURSIVE IPow(_, _)
\* f64::powf on an integer base and an integer exponent >= 0
IPow(a, b) == IF b <= 0 THEN 1 ELSE a * IPow(a, b - 1)

Ids(ns) == 1..Len(ns)

---------------------------------------------------------------------------
\* Equality and hashing of nodes.

RECURSIVE InternalEq(_, _, _)
RECURSIVE ValEq(_, _, _)
\* impl PartialEq for ValInternal: contents, the parents compared as Vec<Val>
InternalEq(ns, i, j) ==
    /\ ns[i].data = ns[j].data
    /\ ns[i].gradient = ns[j].gradient
    /\ ns[i].label = ns[j].label
    /\ ns[i].operation = ns[j].operation
    /\ Len(ns[i].parents) = Len(ns[j].parents)
    /\ \A k \in 1..Len(ns[i].parents) :
          ValEq(ns, ns[i].parents[k], ns[j].parents[k])

\* derived PartialEq of Val: Rc<T: Eq> compares the pointers first, then the
\* RefCell contents
ValEq(ns, i, j) == i = j \/ InternalEq(ns, i, j)

RECURSIVE HashKey(_, _)
\* impl Hash for Val / ValInternal: what is fed to the hasher.  Two nodes have
\* the same hash exactly when they feed the same sequence.
HashKey(ns, i) ==
    <<ns[i].data, ns[i].gradient, ns[i].label, ns[i].operation,
      [k \in 1..Len(ns[i].parents) |-> HashKey(ns, ns[i].parents[k])]>>

\* HashSet::contains(node).  An entry is found for certain when it was stored
\* under the hash the node has now and compares equal.  An entry that compares
\* equal but was stored under another hash (its contents changed while it was
\* in the set) may or may not be found: std leaves that lookup unspecified (a
\* resize rehashes the entries, and a probe matches on a 7-bit tag).
ContainsResults(ns, vis, n) ==
    LET cand == {k \in 1..Len(vis) : ValEq(ns, vis[k].node, n)}
    IN  IF \E k \in cand : vis[k].hash = HashKey(ns, n) THEN {TRUE}
        ELSE IF cand # {} THEN {TRUE, FALSE}
        ELSE {FALSE}

---------------------------------------------------------------------------
\* RefCell borrows.  `held` are the nodes borrowed (shared) by the frames of
\* back_prop_internal; `reqs` are the borrows a rule takes and keeps, in order.
BorrowConflict(held, reqs) ==
    \E k \in 1..Len(reqs) :
        \/ /\ reqs[k].mut
           /\ \/ reqs[k].node \in held
              \/ \E j \in 1..(k - 1) : reqs[j].node = reqs[k].node
        \/ /\ ~reqs[k].mut
           /\ \E j \in 1..(k - 1) : reqs[j].mut /\ reqs[j].node = reqs[k].node

Mut(n) == [node |-> n, mut |-> TRUE]
Shared(n) == [node |-> n, mut |-> FALSE]

---------------------------------------------------------------------------
\* The local-gradient rules (prop_fn closures).  Each has the borrows it takes
\* and the arena it leaves.

\* prop_fn of Add (val.rs and nn.rs are the same)
AddBorrows(ns, v) ==
    LET p0 == ns[v].parents[1]
        p1 == ns[v].parents[2]
    IN  IF InternalEq(ns, p1, p0) THEN <<Mut(p0)>> ELSE <<Mut(p0), Mut(p1)>>

\* AddRule with the second operand's update lost (a fault C7 must detect)
AddRuleFirstOnly(ns, v) ==
    LET p0 == ns[v].parents[1]
        p1 == ns[v].parents[2]
        g == ns[v].gradient
    IN  IF InternalEq(ns, p1, p0)
        THEN [ns EXCEPT ![p0].gradient = @ + 2 * g]
        ELSE [ns EXCEPT ![p0].gradient = @ + g]

AddRule(ns, v) ==
    LET p0 == ns[v].parents[1]
        p1 == ns[v].parents[2]
        g == ns[v].gradient
    IN  IF InternalEq(ns, p1, p0)
        THEN [ns EXCEPT ![p0].gradient = @ + 2 * g]
        ELSE [ns EXCEPT ![p0].gradient = @ + g, ![p1].gradient = @ + g]

\* prop_fn of Mul for &Val (val.rs)
MulBorrows(ns, v) ==
    LET p0 == ns[v].parents[1]
        p1 == ns[v].parents[2]
    IN  IF InternalEq(ns, p1, p0) THEN <<Mut(p0)>> ELSE <<Mut(p0), Mut(p1)>>

\* MulRule with a node used as both operands counted once (a fault C6 must
\* detect)
MulRuleNoDouble(ns, v) ==
    LET p0 == ns[v].parents[1]
        p1 == ns[v].parents[2]
        g == ns[v].gradient
    IN  IF InternalEq(ns, p1, p0)
        THEN [ns EXCEPT ![p0].gradient = @ + ns[p0].data]
        ELSE [ns EXCEPT ![p0].gradient = @ + ns[p1].data * g,
                        ![p1].gradient = @ + ns[p0].data * g]

MulRule(ns, v) ==
    LET p0 == ns[v].parents[1]
        p1 == ns[v].parents[2]
        g == ns[v].gradient
    IN  IF InternalEq(ns, p1, p0)
        THEN [ns EXCEPT ![p0].gradient = @ + 2 * ns[p0].data]
        ELSE [ns EXCEPT ![p0].gradient = @ + ns[p1].data * g,
                        ![p1].gradient = @ + ns[p0].data * g]

\* prop_fn of Mul for Neuron (nn.rs)
NnMulBorrows(ns, v) == <<Mut(ns[v].parents[1]), Mut(ns[v].parents[2])>>

NnMulRule(ns, v) ==
    LET p0 == ns[v].parents[1]
        p1 == ns[v].parents[2]
        g == ns[v].gradient
    IN  [ns EXCEPT ![p0].gradient = @ + ns[p1].data * g,
                   ![p1].gradient = @ + ns[p0].data * g]

\* prop_fn of Val::pow
PowBorrows(ns, v) == <<Mut(ns[v].parents[1]), Shared(ns[v].parents[2])>>

\* PowRule with the exponent also given a share of the gradient (a fault C11
\* must detect)
PowRuleBoth(ns, v) ==
    LET base == ns[v].parents[1]
        power == ns[v].parents[2]
        g == ns[v].gradient
    IN  [ns EXCEPT ![base].gradient =
            @ + ns[power].data * IPow(ns[base].data, ns[power].data - 1) * g,
                   ![power].gradient = @ + g]

PowRule(ns, v) ==
    LET base == ns[v].parents[1]
        power == ns[v].parents[2]
        g == ns[v].gradient
    IN  [ns EXCEPT ![base].gradient =
            @ + ns[power].data * IPow(ns[base].data, ns[power].data - 1) * g]

\* prop_fn of Val::relu
ReluBorrows(ns, v) == <<Mut(ns[v].parents[1])>>

\* ReluRule with the forward cutoff (>= 0) in the backward rule (a fault C10
\* must detect)
ReluRuleNonNeg(ns, v) ==
    LET first == ns[v].parents[1]
        g == ns[v].gradient
    IN  [ns EXCEPT ![first].gradient =
            @ + (IF ns[first].data >= 0 THEN g ELSE 0)]

ReluRule(ns, v) ==
    LET first == ns[v].parents[1]
        g == ns[v].gradient
    IN  [ns EXCEPT ![first].gradient =
            @ + (IF ns[first].data > 0 THEN g ELSE 0)]

\* borrowed.propagate: Some(f) for the nodes the operators build, None for leaves
HasRule(ns, v) == ns[v].operation # NoOp

RuleBorrows(var, ns, v) ==
    CASE ns[v].operation = "+" -> AddBorrows(ns, v)
      [] ns[v].operation = "*" ->
            IF var = "nn" THEN NnMulBorrows(ns, v) ELSE MulBorrows(ns, v)
      [] ns[v].operation = "^" -> PowBorrows(ns, v)
      [] ns[v].operation = "ReLU" -> ReluBorrows(ns, v)
      [] OTHER -> <<>>

ApplyRule(var, ns, v) ==
    CASE ns[v].operation = "+" -> AddRule(ns, v)
      [] ns[v].operation = "*" ->
            IF var = "nn" THEN NnMulRule(ns, v) ELSE MulRule(ns, v)
      [] ns[v].operation = "^" -> PowRule(ns, v)
      [] ns[v].operation = "ReLU" -> ReluRule(ns, v)
      [] OTHER -> ns

---------------------------------------------------------------------------
\* Construction.

\* ValInternal::new / the literal in Val::new: gradient starts at 0
NewInternal(data, label, op, prev_) ==
    [data |-> data, gradient |-> 0, label |-> label, operation |-> op,
     parents |-> prev_]

Building == pc = "idle"

\* Val::new(data, label)
New(data, label) ==
    /\ Building
    /\ Len(nodes) < cfg.nodes
    /\ nodes' = Append(nodes, NewInternal(data, label, NoOp, <<>>))
    /\ UNCHANGED <<variant, cfg, pc, stack, visited, terminal, log, pre, hist>>

\* Val::with_label(self, label)
WithLabel(i, label) ==
    /\ Building
    /\ i \in Ids(nodes)
    /\ nodes' = [nodes EXCEPT ![i].label = label]
    /\ UNCHANGED <<variant, cfg, pc, stack, visited, terminal, log, pre, hist>>

\* impl Add<Val> for Val: self + other
Add(i, j) ==
    /\ Building
    /\ Len(nodes) < cfg.nodes
    /\ InRange(nodes[i].data + nodes[j].data)
    /\ nodes' = Append(nodes,
          NewInternal(nodes[i].data + nodes[j].data, NoLabel, "+", <<i, j>>))
    /\ UNCHANGED <<variant, cfg, pc, stack, visited, terminal, log, pre, hist>>

\* impl Mul<Val> for Val / for &Val: self * other
Mul(i, j) ==
    /\ Building
    /\ Len(nodes) < cfg.nodes
    /\ InRange(nodes[i].data * nodes[j].data)
    /\ nodes' = Append(nodes,
          NewInternal(nodes[i].data * nodes[j].data, NoLabel, "*", <<i, j>>))
    /\ UNCHANGED <<variant, cfg, pc, stack, visited, terminal, log, pre, hist>>

\* Val::pow(&self, other)
Pow(i, j) ==
    /\ Building
    /\ variant = "val"
    /\ Len(nodes) < cfg.nodes
    /\ nodes[j].data \in 1..MaxExp
    /\ InRange(nodes[i].data)
    /\ InRange(IPow(nodes[i].data, nodes[j].data))
    /\ nodes' = Append(nodes,
          NewInternal(IPow(nodes[i].data, nodes[j].data), NoLabel, "^", <<i, j>>))
    /\ UNCHANGED <<variant, cfg, pc, stack, visited, terminal, log, pre, hist>>

\* Val::relu(&self)
Relu(i) ==
    /\ Building
    /\ variant = "val"
    /\ Len(nodes) < cfg.nodes
    /\ nodes' = Append(nodes,
          NewInternal(IF nodes[i].data < 0 THEN 0 ELSE nodes[i].data,
                      NoLabel, "ReLU", <<i>>))
    /\ UNCHANGED <<variant, cfg, pc, stack, visited, terminal, log, pre, hist>>

\* impl Neg for Val: Val::from(-1.0) * self
Neg(i) ==
    /\ Building
    /\ variant = "val"
    /\ Len(nodes) + 1 < cfg.nodes
    /\ InRange(-1 * nodes[i].data)
    /\ nodes' = nodes \o
          << NewInternal(-1, NoLabel, NoOp, <<>>),
             NewInternal(-1 * nodes[i].data, NoLabel, "*", <<Len(nodes) + 1, i>>) >>
    /\ UNCHANGED <<variant, cfg, pc, stack, visited, terminal, log, pre, hist>>

\* ResetGradient zeroing the whole graph instead of the node it is called on
\* (a fault C13 must detect)
ResetGradientAll(i) ==
    /\ Building
    /\ i \in Ids(nodes)
    /\ nodes' = [k \in Ids(nodes) |-> [nodes[k] EXCEPT !.gradient = 0]]
    /\ UNCHANGED <<variant, cfg, pc, stack, visited, terminal, log, pre, hist>>

\* Val::reset_gradient(&self)
ResetGradient(i) ==
    /\ Building
    /\ i \in Ids(nodes)
    /\ nodes' = [nodes EXCEPT ![i].gradient = 0]
    /\ UNCHANGED <<variant, cfg, pc, stack, visited, terminal, log, pre, hist>>

---------------------------------------------------------------------------
\* The reverse pass.

Top == stack[Len(stack)]
Held == {stack[k].node : k \in 1..Len(stack)}
Frame(n, k) == [node |-> n, next |-> k]

\* back_prop_gradient(&self): seed, fresh visited set, first call of
\* back_prop_internal
BackPropGradient(t) ==
    /\ pc = "idle"
    /\ Len(hist) < cfg.passes
    /\ t \in Ids(nodes)
    /\ nodes' = [nodes EXCEPT ![t].gradient = 1]
    /\ pre' = nodes
    /\ visited' = <<>>
    /\ stack' = <<Frame(t, 0)>>
    /\ terminal' = t
    /\ log' = <<>>
    /\ pc' = "running"
    /\ UNCHANGED <<variant, cfg, hist>>

\* The frame on top returns; with the first frame back_prop_gradient returns
\* and its visited set is dropped.
Pop ==
    /\ stack' = SubSeq(stack, 1, Len(stack) - 1)
    /\ IF Len(stack) = 1
       THEN /\ pc' = "idle"
            /\ visited' = <<>>
            /\ hist' = Append(hist,
                  [t |-> terminal, pre |-> pre, post |-> nodes, log |-> log])
       ELSE UNCHANGED <<pc, visited, hist>>

\* back_prop_internal, from its entry to the start of the loop over the
\* parents: the visited test, the insert and the node's rule
Visit ==
    /\ pc = "running"
    /\ Top.next = 0
    /\ LET n == Top.node
       IN  \E found \in ContainsResults(nodes, visited, n) :
             IF found
             THEN /\ Pop
                  /\ UNCHANGED <<nodes, log>>
             ELSE /\ visited' = Append(visited,
                        [node |-> n, hash |-> HashKey(nodes, n)])
                  /\ hist' = hist
                  /\ IF ~HasRule(nodes, n)
                     THEN /\ stack' = [stack EXCEPT ![Len(stack)].next = 1]
                          /\ UNCHANGED <<nodes, log, pc>>
                     ELSE IF BorrowConflict(Held, RuleBorrows(variant, nodes, n))
                     THEN /\ pc' = "panicked"
                          /\ UNCHANGED <<nodes, log, stack>>
                     ELSE /\ nodes' = ApplyRule(variant, nodes, n)
                          /\ log' = Append(log,
                                [node |-> n, gradient |-> nodes[n].gradient])
                          /\ stack' = [stack EXCEPT ![Len(stack)].next = 1]
                          /\ pc' = pc
    /\ UNCHANGED <<variant, cfg, terminal, pre>>

\* for parent in &node.borrow().parents { back_prop_internal(parent, visited) }
Descend ==
    /\ pc = "running"
    /\ Top.next \in 1..Len(nodes[Top.node].parents)
    /\ stack' = Append([stack EXCEPT ![Len(stack)].next = @ + 1],
                       Frame(nodes[Top.node].parents[Top.next], 0))
    /\ UNCHANGED <<variant, cfg, nodes, pc, visited, terminal, log, pre, hist>>

\* the loop over the parents is over: back_prop_internal returns
Return ==
    /\ pc = "running"
    /\ Top.next > Len(nodes[Top.node].parents)
    /\ Pop
    /\ UNCHANGED <<variant, cfg, nodes, terminal, log, pre>>

---------------------------------------------------------------------------
\* Specifications.

Start(var, maxNodes, maxPasses) ==
    /\ variant = var
    /\ cfg = [nodes |-> maxNodes, passes |-> maxPasses]
    /\ nodes = <<>>
    /\ pc = "idle"
    /\ stack = <<>>
    /\ visited = <<>>
    /\ terminal = 0
    /\ log = <<>>
    /\ pre = <<>>
    /\ hist = <<>>

Build ==
    \/ \E d \in Values, l \in Labels : New(d, l)
    \/ \E i \in Ids(nodes), j \in Ids(nodes) : Add(i, j)
    \/ \E i \in Ids(nodes), j \in Ids(nodes) : Mul(i, j)
    \/ \E i \in Ids(nodes), j \in Ids(nodes) : Pow(i, j)
    \/ \E i \in Ids(nodes) : Relu(i)
    \/ \E i \in Ids(nodes) : Neg(i)

Pass ==
    \/ \E t \in Ids(nodes) : BackPropGradient(t)
    \/ Visit
    \/ Descend
    \/ Return

\* val.rs: graphs of up to MaxNodes nodes, one backward pass
Init == Start("val", MaxNodes, 1)
Next == Build \/ Pass
Spec == Init /\ [][Next]_vars

\* the same, with the steps of a running pass taken eventually (the pass is
\* one synchronous call)
SpecFair == Spec /\ WF_vars(Visit) /\ WF_vars(Descend) /\ WF_vars(Return)

\* val.rs: graphs of up to DagNodes nodes, one backward pass
InitDag == Start("val", DagNodes, 1)
SpecDag == InitDag /\ [][Next]_vars

\* val.rs: up to MaxPasses passes over a graph, with reset_gradient between
InitRepeat == Start("val", MaxNodes, MaxPasses)
NextRepeat ==
    \/ Build
    \/ Pass
    \/ \E i \in Ids(nodes) : ResetGradient(i)
SpecRepeat == InitRepeat /\ [][NextRepeat]_vars

\* val.rs or nn.rs: graphs of up to MaxNodes nodes, one backward pass (nn.rs
\* has add and multiply only)
InitEngines == \E var \in {"val", "nn"} : Start(var, MaxNodes, 1)
SpecEngines == InitEngines /\ [][Next]_vars

\* val.rs: powers over leaves drawn from a wider range of bases and exponents
PowValues == {-1, 0, 1, 2, 3}
InitPow == Start("val", MaxNodes, 1)
NextPow ==
    \/ \E d \in PowValues, l \in Labels : New(d, l)
    \/ \E i \in Ids(nodes), j \in Ids(nodes) : Pow(i, j)
    \/ Pass
SpecPow == InitPow /\ [][NextPow]_vars

---------------------------------------------------------------------------
\* The canonical worked example (tests::test_nn of val.rs and nn.rs), built by
\* the operators in the order of the test, with any labels:
\*   1: a = 2   2: b = -3   3: c = 10   4: e = a * b   5: d = e + c
\*   6: f = -2  7: l = d * f
CanonBuild ==
    \/ Len(nodes) = 0 /\ \E lb \in Labels : New(2, lb)
    \/ Len(nodes) = 1 /\ \E lb \in Labels : New(-3, lb)
    \/ Len(nodes) = 2 /\ \E lb \in Labels : New(10, lb)
    \/ Len(nodes) = 3 /\ Mul(1, 2)
    \/ Len(nodes) = 4 /\ Add(4, 3)
    \/ Len(nodes) = 5 /\ \E lb \in Labels : New(-2, lb)
    \/ Len(nodes) = 6 /\ Mul(5, 6)
    \/ \E lb \in Labels :
          /\ nodes # <<>>
          /\ nodes[Len(nodes)].operation # NoOp
          /\ WithLabel(Len(nodes), lb)

InitCanon == \E var \in {"val", "nn"} : Start(var, 7, 1)
NextCanon ==
    \/ CanonBuild
    \/ Len(nodes) = 7 /\ BackPropGradient(7)
    \/ Visit
    \/ Descend
    \/ Return
SpecCanon == InitCanon /\ [][NextCanon]_vars

---------------------------------------------------------------------------
\* Vocabulary of the properties.

Range(f) == {f[k] : k \in DOMAIN f}
AllZero(ns) == \A i \in Ids(ns) : ns[i].gradient = 0
IsLeaf(ns, i) == ns[i].parents = <<>>
ParentSet(ns, i) == Range(ns[i].parents)

RECURSIVE Reach(_, _)
\* the nodes reachable from t through parent links, t included
Reach(ns, t) == {t} \cup UNION {Reach(ns, p) : p \in ParentSet(ns, t)}

\* how often the rule of n was invoked in a pass
Invocations(lg, n) == Cardinality({k \in 1..Len(lg) : lg[k].node = n})

\* d(c)/d(its k-th operand) for add and multiply
LocalDeriv(ns, c, k) ==
    IF ns[c].operation = "+" THEN 1 ELSE ns[ns[c].parents[3 - k]].data

RECURSIVE PathSum(_, _, _)
RECURSIVE ChildSum(_, _, _, _)
\* the sum over every path from n to t of the product of the local derivatives
PathSum(ns, n, t) ==
    IF n = t THEN 1 ELSE IF n > t THEN 0 ELSE ChildSum(ns, n, t, n + 1)

\* the part of PathSum(ns, n, t) that goes through the children c..t of n
ChildSum(ns, n, t, c) ==
    IF c > t THEN 0
    ELSE LET ps == ns[c].parents
             via(k) == IF k <= Len(ps) /\ ps[k] = n
                       THEN LocalDeriv(ns, c, k) * PathSum(ns, c, t) ELSE 0
         IN  via(1) + via(2) + ChildSum(ns, n, t, c + 1)

AddMulOnly(ns, t) == \A n \in Reach(ns, t) : ns[n].operation \in {NoOp, "+", "*"}

\* a non-leaf node of the graph of t that two different nodes of it consume
Diamond(ns, t) ==
    \E n \in Reach(ns, t) : \E c1, c2 \in Reach(ns, t) :
        /\ ~IsLeaf(ns, n)
        /\ c1 # c2
        /\ n \in ParentSet(ns, c1)
        /\ n \in ParentSet(ns, c2)

\* a pass that returned, on a graph whose gradients were all 0
CleanPasses == {h \in Range(hist) : AllZero(h.pre)}

\* t = a op b over two separately constructed leaves
TwoLeaves(h, op) ==
    LET ps == h.pre[h.t].parents
    IN  /\ h.pre[h.t].operation = op
        /\ ps[1] # ps[2]
        /\ IsLeaf(h.pre, ps[1])
        /\ IsLeaf(h.pre, ps[2])

\* t = a op a over one leaf
SameLeaf(ns, t, op) ==
    /\ t \in Ids(ns)
    /\ ns[t].operation = op
    /\ ns[t].parents[1] = ns[t].parents[2]
    /\ IsLeaf(ns, ns[t].parents[1])

---------------------------------------------------------------------------
\* C1: after back_prop_gradient(t) on a graph whose gradients were all 0, every
\* node reachable from t has the gradient the chain rule gives it (the sum over
\* the paths to t of the products of the local derivatives).  Stated for the
\* add/multiply graphs the claim names last: the diamonds, in which a non-leaf
\* node is consumed by two different downstream operations.
C1_ChainRuleOnDiamonds ==
    \A h \in CleanPasses :
        AddMulOnly(h.pre, h.t) /\ Diamond(h.pre, h.t) =>
            \A n \in Reach(h.pre, h.t) :
                h.post[n].gradient = PathSum(h.post, n, h.t)

\* C2: in one pass the rule of every node reachable from t is invoked exactly
\* once (leaves have no rule).
C2_RuleInvokedOnce ==
    \A h \in Range(hist) :
        \A n \in Reach(h.pre, h.t) :
            HasRule(h.pre, n) => Invocations(h.log, n) = 1

\* C3: a node's rule is never invoked before the rule of every child of it that
\* is reachable from t has been invoked.
C3_ChildrenFirst ==
    \A h \in Range(hist) :
        \A k \in 1..Len(h.log) :
            \A c \in Reach(h.pre, h.t) :
                h.log[k].node \in ParentSet(h.pre, c) =>
                    \E j \in 1..(k - 1) : h.log[j].node = c

\* C4: for two separately constructed leaves a and b, whatever their values
\* and labels, back_prop_gradient(a + b) leaves a.gradient = 1 and
\* b.gradient = 1.
C4_AddTwoLeaves ==
    \A h \in CleanPasses :
        TwoLeaves(h, "+") =>
            /\ h.post[h.pre[h.t].parents[1]].gradient = 1
            /\ h.post[h.pre[h.t].parents[2]].gradient = 1

\* C5: for two separately constructed leaves a and b, whatever their values
\* and labels, back_prop_gradient(a * b) leaves a.gradient = b.value and
\* b.gradient = a.value.
C5_MulTwoLeaves ==
    \A h \in CleanPasses :
        TwoLeaves(h, "*") =>
            LET a == h.pre[h.t].parents[1]
                b == h.pre[h.t].parents[2]
            IN  /\ h.post[a].gradient = h.pre[b].data
                /\ h.post[b].gradient = h.pre[a].data

\* C6: with one leaf a as both operands, the pass over a + a or a * a completes
\* (it does not abort) and leaves a.gradient = 2, respectively 2 * a.value.
C6_SelfReuse ==
    /\ pc = "panicked" =>
          ~(SameLeaf(pre, terminal, "+") \/ SameLeaf(pre, terminal, "*"))
    /\ \A h \in CleanPasses :
          LET a == h.pre[h.t].parents[1]
          IN  /\ SameLeaf(h.pre, h.t, "+") => h.post[a].gradient = 2
              /\ SameLeaf(h.pre, h.t, "*") => h.post[a].gradient = 2 * h.pre[a].data

\* C6 witness: a pass over a * a, a.value # 0, has returned
C6_Witness ==
    \E h \in CleanPasses :
        /\ SameLeaf(h.pre, h.t, "*")
        /\ h.pre[h.pre[h.t].parents[1]].data # 0
        /\ h.post[h.pre[h.t].parents[1]].gradient # 0

\* C7: the canonical worked example: e.value = -6, d.value = 4, l.value = -8,
\* and after back_prop_gradient(l): l.gradient = 1, f.gradient = 4,
\* d.gradient = -2, c.gradient = -2, e.gradient = -2, a.gradient = 6,
\* b.gradient = -4.
C7_Canonical ==
    /\ Len(nodes) >= 4 => nodes[4].data = -6
    /\ Len(nodes) >= 5 => nodes[5].data = 4
    /\ Len(nodes) >= 7 => nodes[7].data = -8
    /\ \A h \in Range(hist) :
          /\ h.post[7].gradient = 1
          /\ h.post[6].gradient = 4
          /\ h.post[5].gradient = -2
          /\ h.post[3].gradient = -2
          /\ h.post[4].gradient = -2
          /\ h.post[1].gradient = 6
          /\ h.post[2].gradient = -4

\* C7 witness: back_prop_gradient(l) has returned on the example
C7_Witness ==
    /\ Len(hist) = 1
    /\ hist[1].t = 7
    /\ Len(hist[1].log) = 3

Zeroed(ns) == [i \in Ids(ns) |-> [ns[i] EXCEPT !.gradient = 0]]

\* C8: back_prop_gradient(t), then reset_gradient on every node, then
\* back_prop_gradient(t) again leaves every node with the gradient it had
\* after the first pass.
C8_RepeatedPassSame ==
    \A k \in 1..(Len(hist) - 1) :
        /\ AllZero(hist[k].pre)
        /\ hist[k + 1].t = hist[k].t
        /\ hist[k + 1].pre = Zeroed(hist[k].post)
        => hist[k + 1].post = hist[k].post

\* C9: every back_prop_gradient(t) that was started eventually returns.
C9_PassReturns == (pc = "running") ~> (pc = "idle")

Max(x, y) == IF x >= y THEN x ELSE y

\* C10: for a leaf x, relu(x).value = max(x.value, 0), and after
\* back_prop_gradient(relu(x)) x.gradient is 1 when x.value > 0 and 0 when
\* x.value <= 0 (0 at the boundary x.value = 0).
C10_Relu ==
    /\ \A i \in Ids(nodes) :
          nodes[i].operation = "ReLU" /\ IsLeaf(nodes, nodes[i].parents[1]) =>
              nodes[i].data = Max(nodes[nodes[i].parents[1]].data, 0)
    /\ \A h \in CleanPasses :
          LET x == h.pre[h.t].parents[1]
          IN  h.pre[h.t].operation = "ReLU" /\ IsLeaf(h.pre, x) =>
                  h.post[x].gradient = IF h.pre[x].data > 0 THEN 1 ELSE 0

\* C10 witness: a pass over relu(x) has returned for a leaf x at the boundary
\* x.value = 0
C10_Witness ==
    \E h \in CleanPasses :
        /\ h.pre[h.t].operation = "ReLU"
        /\ IsLeaf(h.pre, h.pre[h.t].parents[1])
        /\ h.pre[h.pre[h.t].parents[1]].data = 0
        /\ h.post[h.pre[h.t].parents[1]].gradient = 0

\* t = a.pow(&b) over two separately constructed leaves whose gradients are 0
PowTwoLeaves(h) ==
    LET ps == h.pre[h.t].parents
    IN  /\ h.pre[h.t].operation = "^"
        /\ ps[1] # ps[2]
        /\ IsLeaf(h.pre, ps[1])
        /\ IsLeaf(h.pre, ps[2])
        /\ h.pre[ps[1]].gradient = 0
        /\ h.pre[ps[2]].gradient = 0

\* C11: for two distinct leaves a (base) and b (exponent) with gradient 0,
\* back_prop_gradient(a.pow(b)) leaves a.gradient = b.value *
\* a.value^(b.value - 1) and b.gradient = 0: the exponent never receives a
\* contribution from the power node.
C11_Pow ==
    \A h \in Range(hist) :
        PowTwoLeaves(h) =>
            LET a == h.pre[h.t].parents[1]
                b == h.pre[h.t].parents[2]
            IN  /\ h.post[a].gradient =
                      h.pre[b].data * IPow(h.pre[a].data, h.pre[b].data - 1)
                /\ h.post[b].gradient = 0

\* C11 witness: a pass over a.pow(b) has returned for distinct leaves of equal
\* value and label, with a non-zero derivative
C11_Witness ==
    \E h \in Range(hist) :
        /\ PowTwoLeaves(h)
        /\ h.pre[h.pre[h.t].parents[1]].data = 2
        /\ h.pre[h.pre[h.t].parents[2]].data = 2
        /\ h.pre[h.pre[h.t].parents[1]].label = h.pre[h.pre[h.t].parents[2]].label
        /\ h.post[h.pre[h.t].parents[1]].gradient = 4

\* this step invokes the rule of the multiply node m
MulInvoked(m) ==
    /\ pc = "running"
    /\ Len(log') = Len(log) + 1
    /\ log'[Len(log')].node = m
    /\ nodes[m].operation = "*"

\* C12: whenever the rule of a multiply node m is invoked, with any current
\* m.gradient, what each parent gains is scaled by m.gradient; stated for the
\* case of one node p as both operands, which gains 2 * p.value * m.gradient.
C12_MulScaledByGradient ==
    [][\A m \in Ids(nodes) :
          MulInvoked(m) /\ nodes[m].parents[1] = nodes[m].parents[2] =>
              LET p == nodes[m].parents[1]
              IN  nodes'[p].gradient =
                      nodes[p].gradient + 2 * nodes[p].data * nodes[m].gradient]_vars

\* C13: back_prop_gradient and reset_gradient change only gradient fields (the
\* value, label, operation tag and parent list of every node stay); a step of
\* back_prop_gradient changes no gradient of a node that is not reachable from
\* the terminal, and reset_gradient changes the gradient of the node it is
\* called on and nothing else.
C13_Frame ==
    [][/\ Pass =>
             /\ Zeroed(nodes') = Zeroed(nodes)
             /\ \A n \in Ids(nodes) \ Reach(nodes, terminal') :
                    nodes'[n].gradient = nodes[n].gradient
       /\ \A i \in Ids(nodes) :
             ResetGradient(i) =>
                 /\ Zeroed(nodes') = Zeroed(nodes)
                 /\ \A n \in Ids(nodes) \ {i} : nodes'[n] = nodes[n]]_vars

\* C13 witness: a second pass has returned that left alone the non-zero
\* gradient of a node its terminal does not reach, after reset_gradient had
\* zeroed another node and left a non-zero gradient elsewhere
C13_Witness ==
    /\ Len(hist) = 2
    /\ \E n \in Ids(hist[2].pre) \ Reach(hist[2].pre, hist[2].t) :
          /\ hist[2].pre[n].gradient # 0
          /\ hist[2].post[n].gradient = hist[2].pre[n].gradient
    /\ \E m \in Ids(hist[1].post) :
          /\ hist[1].post[m].gradient # 0
          /\ hist[2].pre[m].gradient = 0
    /\ hist[2].post # hist[2].pre

\* C14: back_prop_gradient never aborts on a conflicting RefCell borrow: no
\* rule asks for a mutable borrow of a node while another borrow of that node
\* is held, also when one node is both operands of an operator.
C14_NoBorrowAbort == pc # "panicked"

====
